---- MODULE Spec2Model ----
(***************************************************************************)
(* Build-health analyzer (analyzer.py): the run of main() as a state       *)
(* machine.  A run expands the file patterns, parses every report in       *)
(* sorted order while folding the outcomes into the per-test history and   *)
(* the latest snapshot, builds the payload and uploads it once.            *)
(*                                                                         *)
(* Python dicts keep insertion order; history and latest_results are       *)
(* modelled as sequences of entries in insertion order with unique keys.   *)
(* Strings that the code slices (failure messages) are sequences of        *)
(* one-character strings.  Durations are integers in milliseconds.         *)
(***************************************************************************)
EXTENDS Integers, Sequences, FiniteSets, TLC

VARIABLES pc, expanded_files, idx, file_path, results,
          history, latest_results, total_duration,
          payload, response, publish_attempts, exit_code

vars == <<pc, expanded_files, idx, file_path, results,
          history, latest_results, total_duration,
          payload, response, publish_attempts, exit_code>>

(* ------------------------------ constants ------------------------------ *)

STARTING_SCORE == 100
PENALTY_CURRENT_FAILURE == 20
PENALTY_FLAKY_TEST == 10
THRESHOLD_STABLE == 80
THRESHOLD_UNSTABLE == 50

(* ------------------------------- bounds -------------------------------- *)

\* report files present on disk, named 1..NumFiles (ordered as their paths sort)
NumFiles == 2
\* command-line patterns (nargs='+': at least one)
MaxPatterns == 2
\* length of the expanded file list
MaxFiles == 2
\* <testcase> nodes per report
MaxCases == 2
\* <testcase> nodes of all the reports of a run together
MaxOutcomes == 3
\* tests of the aggregator states the scoring runs start from
NumScoreTests == 6
\* body length of the failure messages the truncation runs start from
MaxMsgLen == 150

(* ------------------------------- helpers ------------------------------- *)

\* an optional value (an attribute or a child node that may be absent) is a
\* sequence of length 0 or 1
Absent == <<>>
Present(v) == <<v>>

Max(a, b) == IF a >= b THEN a ELSE b

RECURSIVE Sum(_)
Sum(s) == IF s = <<>> THEN 0 ELSE Head(s) + Sum(Tail(s))

RECURSIVE Concat(_)
Concat(ss) == IF ss = <<>> THEN <<>> ELSE Head(ss) \o Concat(Tail(ss))

Range(s) == {s[i] : i \in DOMAIN s}

(* ------------------------------ TestResult ----------------------------- *)

TestResult(name, status, message, duration) ==
    [name |-> name, status |-> status, message |-> message, duration |-> duration]

(* ---------------------------- parse_xml_file --------------------------- *)

UnknownFailure == <<"U","n","k","n","o","w","n"," ","f","a","i","l","u","r","e">>
UnknownError == <<"U","n","k","n","o","w","n"," ","e","r","r","o","r">>

\* `a or b` on strings: the first operand if it is non-empty, else the second
Or(a, b) == IF a # <<>> THEN a ELSE b

\* float(case.get('time', 0.0)): a missing attribute is 0.0, a number its
\* value, any other text raises ValueError (the call is outside the try block)
TimeRaises(node) == node.time.kind = "malformed"
Duration(node) == IF node.time.kind = "number" THEN node.time.value ELSE 0

\* node.get('message', '') or node.text or placeholder; node.text is None
\* (absent) or a string
ChildMessage(child, placeholder) ==
    LET attr == IF child.message = Absent THEN <<>> ELSE child.message[1]
        text == IF child.text = Absent THEN <<>> ELSE child.text[1]
    IN Or(Or(attr, text), placeholder)

\* f"{case.get('classname', 'unknown')}.{case.get('name', 'unknown')}"
FullName(node) ==
    <<IF node.classname = Absent THEN "unknown" ELSE node.classname[1],
      IF node.name = Absent THEN "unknown" ELSE node.name[1]>>

ParseCase(node) ==
    LET full_name == FullName(node)
        duration == Duration(node)
    IN IF node.failure # Absent
         THEN TestResult(full_name, "FAIL", ChildMessage(node.failure[1], UnknownFailure), duration)
       ELSE IF node.error # Absent
         THEN TestResult(full_name, "FAIL", ChildMessage(node.error[1], UnknownError), duration)
       ELSE IF node.skipped
         THEN TestResult(full_name, "SKIP", <<>>, duration)
       ELSE TestResult(full_name, "PASS", <<>>, duration)

\* a report is unparsable (missing or malformed file: ET.parse raises) or a
\* root element with a tag, its <testsuite> children (each the sequence of
\* its <testcase> children) and its own <testcase> children
Unparsable == [tag |-> "unparsable", suites |-> <<>>, cases |-> <<>>]

Suites(root) == IF root.tag = "testsuites" THEN root.suites ELSE <<root.cases>>

Cases(root) == Concat(Suites(root))

ParseRaises(content) ==
    /\ content.tag # "unparsable"
    /\ \E i \in DOMAIN Cases(content) : TimeRaises(Cases(content)[i])

ParseXmlFile(content) ==
    IF content.tag = "unparsable" THEN <<>>
    ELSE LET cases == Cases(content)
         IN [i \in 1..Len(cases) |-> ParseCase(cases[i])]

(* ---------------------------- process_builds --------------------------- *)

ExpandFiles(patterns) == SortSeq(Concat(patterns), LAMBDA a, b : a < b)

HasKey(d, name) == \E i \in DOMAIN d : d[i].name = name

Get(d, name) == d[CHOOSE i \in DOMAIN d : d[i].name = name]

\* self.history[name].append(status), creating the entry on first sight
HistoryAppend(h, name, status) ==
    IF ~HasKey(h, name)
      THEN Append(h, [name |-> name, statuses |-> <<status>>])
      ELSE [i \in 1..Len(h) |->
              IF h[i].name = name
                THEN [h[i] EXCEPT !.statuses = Append(@, status)]
                ELSE h[i]]

\* self.latest_results[name] = result (an existing key keeps its position)
LatestSet(l, result) ==
    IF ~HasKey(l, result.name)
      THEN Append(l, result)
      ELSE [i \in 1..Len(l) |-> IF l[i].name = result.name THEN result ELSE l[i]]

IsLatest(i, n) == i = n - 1

AddResult(ag, result, is_latest) ==
    [history |-> HistoryAppend(ag.history, result.name, result.status),
     latest_results |-> IF is_latest THEN LatestSet(ag.latest_results, result)
                                     ELSE ag.latest_results,
     total_duration |-> ag.total_duration]

RECURSIVE AddResults(_, _, _)
AddResults(ag, rs, is_latest) ==
    IF rs = <<>> THEN ag
    ELSE AddResults(AddResult(ag, Head(rs), is_latest), Tail(rs), is_latest)

\* one iteration of the loop over expanded_files, after the parse
ProcessResults(ag, rs, is_latest) ==
    LET timed == IF is_latest
                   THEN [ag EXCEPT !.total_duration =
                           Sum([i \in 1..Len(rs) |-> rs[i].duration])]
                   ELSE ag
    IN AddResults(timed, rs, is_latest)

Agent == [history |-> history, latest_results |-> latest_results,
          total_duration |-> total_duration]

\* the number of outcomes folded so far
Outcomes(h) == Sum([i \in 1..Len(h) |-> Len(h[i].statuses)])

NewAgent == [history |-> <<>>, latest_results |-> <<>>, total_duration |-> 0]

(* --------------------------- generate_payload -------------------------- *)

\* faulty variant: every result that did not pass counts as a failure
CurrentFailuresNotPass(latest) == SelectSeq(latest, LAMBDA r : r.status # "PASS")

CurrentFailures(latest) == SelectSeq(latest, LAMBDA r : r.status = "FAIL")

\* faulty variant: the final status counts as one of the failures
IsFlakyAnyFail(statuses) ==
    /\ Len(statuses) >= 2
    /\ "FAIL" \in Range(statuses)

\* faulty variant: the final status is not looked at
IsFlakyNoLastCheck(statuses) ==
    /\ Len(statuses) >= 2
    /\ "FAIL" \in Range(SubSeq(statuses, 1, Len(statuses) - 1))

IsFlaky(statuses) ==
    /\ Len(statuses) >= 2
    /\ statuses[Len(statuses)] = "PASS"
    /\ "FAIL" \in Range(SubSeq(statuses, 1, Len(statuses) - 1))

FlakyTests(h) ==
    LET flaky == SelectSeq(h, LAMBDA e : IsFlaky(e.statuses))
    IN [i \in 1..Len(flaky) |-> flaky[i].name]

\* faulty variant: the lower clamp is missing
ScoreUnclamped(n_failures, n_flaky) ==
    STARTING_SCORE - (n_failures * PENALTY_CURRENT_FAILURE)
                   - (n_flaky * PENALTY_FLAKY_TEST)

Score(n_failures, n_flaky) ==
    Max(0, STARTING_SCORE - (n_failures * PENALTY_CURRENT_FAILURE)
                          - (n_flaky * PENALTY_FLAKY_TEST))

\* faulty variant: the thresholds are compared with <=
StatusInclusive(score) ==
    IF score <= THRESHOLD_UNSTABLE THEN "Critical"
    ELSE IF score <= THRESHOLD_STABLE THEN "Unstable"
    ELSE "Stable"

Status(score) ==
    IF score < THRESHOLD_UNSTABLE THEN "Critical"
    ELSE IF score < THRESHOLD_STABLE THEN "Unstable"
    ELSE "Stable"

Whitespace == {" ", "\n", "\t", "\r"}

RECURSIVE LStrip(_)
LStrip(s) == IF s # <<>> /\ Head(s) \in Whitespace THEN LStrip(Tail(s)) ELSE s

RECURSIVE RStrip(_)
RStrip(s) ==
    IF s # <<>> /\ s[Len(s)] \in Whitespace THEN RStrip(SubSeq(s, 1, Len(s) - 1)) ELSE s

Strip(s) == RStrip(LStrip(s))

ReplaceNewlines(s) == [i \in 1..Len(s) |-> IF s[i] = "\n" THEN " " ELSE s[i]]

CleanMsg(message) == ReplaceNewlines(Strip(message))

Ellipsis == <<".", ".", ".">>

\* faulty variant: the marker is added to a 100-character prefix
FormatErrorLong(clean_msg) ==
    IF Len(clean_msg) > 100 THEN SubSeq(clean_msg, 1, 100) \o Ellipsis ELSE clean_msg

FormatError(clean_msg) ==
    IF Len(clean_msg) > 100 THEN SubSeq(clean_msg, 1, 97) \o Ellipsis ELSE clean_msg

\* round(x, 2) of a duration in milliseconds, in milliseconds (the durations
\* drawn below never sum to a tie, where the float's binary form would decide)
Round2(ms) == ((ms + 5) \div 10) * 10

GeneratePayload(ag) ==
    LET current_failures == CurrentFailures(ag.latest_results)
        flaky_tests == FlakyTests(ag.history)
        score == Score(Len(current_failures), Len(flaky_tests))
    IN [summary |-> [score |-> score, status |-> Status(score),
                     totalDuration |-> Round2(ag.total_duration)],
        flakyTests |-> flaky_tests,
        currentFailures |->
            [i \in 1..Len(current_failures) |->
                [test |-> current_failures[i].name,
                 error |-> FormatError(CleanMsg(current_failures[i].message))]]]

(* ------------------------------ environment ---------------------------- *)

SeqsUpTo(S, n) == UNION {[1..k -> S] : k \in 0..n}

Files == 1..NumFiles

\* what glob.glob returns for one pattern: existing files, each once, in any order
GlobResults ==
    {s \in SeqsUpTo(Files, MaxFiles) : \A i, j \in DOMAIN s : i # j => s[i] # s[j]}

PatternLists ==
    {ps \in UNION {[1..k -> GlobResults] : k \in 1..MaxPatterns} :
        Len(Concat(ps)) <= MaxFiles}

\* the identities a <testcase> carries: a class and a name, or neither attribute
Identities ==
    {[classname |-> Present("c"), name |-> Present("a")],
     [classname |-> Absent, name |-> Absent]}

Boom == <<" ", "b", "\n", "m">>

Number(ms) == [kind |-> "number", value |-> ms]
Missing == [kind |-> "missing", value |-> 0]
Malformed == [kind |-> "malformed", value |-> 0]

Child(message, text) == [message |-> message, text |-> text]

Shapes ==
    { [time |-> Number(1000), failure |-> Absent, error |-> Absent, skipped |-> FALSE],
      [time |-> Number(4), failure |-> Present(Child(Present(Boom), Absent)),
       error |-> Absent, skipped |-> TRUE],
      [time |-> Missing, failure |-> Absent,
       error |-> Present(Child(Absent, Absent)), skipped |-> FALSE],
      [time |-> Number(4), failure |-> Absent, error |-> Absent, skipped |-> TRUE],
      [time |-> Malformed, failure |-> Absent, error |-> Absent, skipped |-> FALSE] }

CaseNodes ==
    {[classname |-> id.classname, name |-> id.name, time |-> sh.time,
      failure |-> sh.failure, error |-> sh.error, skipped |-> sh.skipped] :
        id \in Identities, sh \in Shapes}

\* the reports holding at most n <testcase> nodes, drawn from `nodes`
Reports(nodes, n) ==
    {Unparsable}
    \cup {[tag |-> "testsuite", suites |-> <<>>, cases |-> cs] :
            cs \in SeqsUpTo(nodes, n)}
    \cup {[tag |-> "testsuites",
           suites |-> <<SubSeq(cs, 1, 1), SubSeq(cs, 2, Len(cs))>>, cases |-> <<>>] :
            cs \in SeqsUpTo(nodes, n) \ {<<>>}}

Min(a, b) == IF a <= b THEN a ELSE b

\* the reports a file may hold once `used` <testcase> nodes have been read
FileContents(used) == Reports(CaseNodes, Min(MaxCases, MaxOutcomes - used))

\* outcome of requests.put: an HTTP status code, or 0 for a raised exception
Responses == {200, 201, 204, 500, 0}

(* -------------------------------- actions ------------------------------ *)

Init ==
    /\ pc = "start"
    /\ expanded_files = <<>>
    /\ idx = 0
    /\ file_path = 0
    /\ results = <<>>
    /\ history = <<>>
    /\ latest_results = <<>>
    /\ total_duration = 0
    /\ payload = <<>>
    /\ response = 0
    /\ publish_attempts = 0
    /\ exit_code = 0

\* faulty variant: an empty file list ends the run with exit status 1
ExpandPatternsExit ==
    /\ pc = "start"
    /\ \E file_patterns \in PatternLists :
          /\ expanded_files' = ExpandFiles(file_patterns)
          /\ pc' = IF ExpandFiles(file_patterns) = <<>> THEN "crashed" ELSE "loop"
          /\ exit_code' = IF ExpandFiles(file_patterns) = <<>> THEN 1 ELSE 0
    /\ UNCHANGED <<idx, file_path, results, history, latest_results, total_duration,
                   payload, response, publish_attempts>>

\* process_builds up to the loop: glob every pattern, sort, return if empty
ExpandPatterns ==
    /\ pc = "start"
    /\ \E file_patterns \in PatternLists :
          /\ expanded_files' = ExpandFiles(file_patterns)
          /\ pc' = IF ExpandFiles(file_patterns) = <<>> THEN "upload" ELSE "loop"
    /\ UNCHANGED <<idx, file_path, results, history, latest_results, total_duration,
                   payload, response, publish_attempts, exit_code>>

\* one iteration of the loop: parse the file, fold its results
ProcessFile ==
    /\ pc = "loop"
    /\ \E content \in FileContents(Outcomes(history)) :
          /\ ~ParseRaises(content)
          /\ LET rs == ParseXmlFile(content)
                 is_latest == IsLatest(idx, Len(expanded_files))
                 ag == ProcessResults(Agent, rs, is_latest)
             IN /\ results' = rs
                /\ history' = ag.history
                /\ latest_results' = ag.latest_results
                /\ total_duration' = ag.total_duration
    /\ file_path' = expanded_files[idx + 1]
    /\ idx' = idx + 1
    /\ pc' = IF idx + 1 = Len(expanded_files) THEN "upload" ELSE "loop"
    /\ UNCHANGED <<expanded_files, payload, response, publish_attempts, exit_code>>

\* one iteration of the loop in which float() raises ValueError: nothing
\* catches it, the interpreter prints the traceback and exits with status 1
ProcessFileRaises ==
    /\ pc = "loop"
    /\ \E content \in FileContents(Outcomes(history)) : ParseRaises(content)
    /\ file_path' = expanded_files[idx + 1]
    /\ pc' = "crashed"
    /\ exit_code' = 1
    /\ UNCHANGED <<expanded_files, idx, results, history, latest_results,
                   total_duration, payload, response, publish_attempts>>

IsSuccess(status_code) == status_code \in {200, 201, 204}

\* upload_to_jira: build the payload, one PUT, sys.exit(1) unless it succeeded
UploadToJira ==
    /\ pc = "upload"
    /\ \E r \in Responses :
          /\ response' = r
          /\ exit_code' = IF IsSuccess(r) THEN 0 ELSE 1
    /\ payload' = GeneratePayload(Agent)
    /\ publish_attempts' = publish_attempts + 1
    /\ pc' = "done"
    /\ UNCHANGED <<expanded_files, idx, file_path, results, history, latest_results,
                   total_duration>>

Next == ExpandPatterns \/ ProcessFile \/ ProcessFileRaises \/ UploadToJira

Spec == Init /\ [][Next]_vars

(* ------------------- runs that start after aggregation ----------------- *)

\* The state process_builds leaves after the reports `reports` (one per
\* expanded file, in processing order), computed as the loop computes it.
RECURSIVE RunBuilds(_, _, _)
RunBuilds(ag, reports, i) ==
    IF i >= Len(reports) THEN ag
    ELSE RunBuilds(ProcessResults(ag, ParseXmlFile(reports[i + 1]),
                                  IsLatest(i, Len(reports))),
                   reports, i + 1)

AfterBuilds(reports) ==
    LET ag == RunBuilds(NewAgent, reports, 0)
    IN /\ pc = "upload"
       /\ expanded_files = [i \in 1..Len(reports) |-> i]
       /\ idx = Len(reports)
       /\ file_path = Len(reports)
       /\ results = ParseXmlFile(reports[Len(reports)])
       /\ history = ag.history
       /\ latest_results = ag.latest_results
       /\ total_duration = ag.total_duration
       /\ payload = <<>>
       /\ response = 0
       /\ publish_attempts = 0
       /\ exit_code = 0

Suite(cases) == [tag |-> "testsuite", suites |-> <<>>, cases |-> cases]

PassNode(n) ==
    [classname |-> Present("c"), name |-> Present(n), time |-> Number(1000),
     failure |-> Absent, error |-> Absent, skipped |-> FALSE]

FailNode(n, message) ==
    [classname |-> Present("c"), name |-> Present(n), time |-> Number(4),
     failure |-> Present(Child(Present(message), Absent)), error |-> Absent,
     skipped |-> FALSE]

\* Scoring runs: two reports over the tests 1..NumScoreTests.  A "flaky"
\* test fails in the first and passes in the second, a "failing" one fails
\* in the second, a "passing" one passes in the second, an "absent" one is
\* in neither.
Profiles == [1..NumScoreTests -> {"absent", "failing", "flaky", "passing"}]

ScoreTest(i) == ToString(i)

FirstReport(profile) ==
    LET ts == SelectSeq([i \in 1..NumScoreTests |-> i], LAMBDA i : profile[i] = "flaky")
    IN Suite([k \in 1..Len(ts) |-> FailNode(ScoreTest(ts[k]), Boom)])

SecondReport(profile) ==
    LET ts == SelectSeq([i \in 1..NumScoreTests |-> i], LAMBDA i : profile[i] # "absent")
    IN Suite([k \in 1..Len(ts) |->
                IF profile[ts[k]] = "failing" THEN FailNode(ScoreTest(ts[k]), Boom)
                                               ELSE PassNode(ScoreTest(ts[k]))])

InitScore == \E profile \in Profiles :
    AfterBuilds(<<FirstReport(profile), SecondReport(profile)>>)

NextScore == UploadToJira

SpecScore == InitScore /\ [][NextScore]_vars

\* Truncation runs: one report with one failing test whose message is
\* lead \o body \o trail: the body has n characters, newlines at the
\* positions nl and "x" elsewhere; lead and trail are whitespace.
Pads == {<<>>, <<" ">>, <<"\n", "\t">>}

Body(n, nl) == [i \in 1..n |-> IF i \in nl THEN "\n" ELSE "x"]

Messages ==
    {lead \o Body(n, nl) \o trail :
        lead \in Pads, trail \in Pads, n \in 0..MaxMsgLen, nl \in {{}, {2}, {2, 99}}}

InitMsg == \E message \in Messages :
    AfterBuilds(<<Suite(<<FailNode("a", message)>>)>>)

NextMsg == UploadToJira

SpecMsg == InitMsg /\ [][NextMsg]_vars

(* -------------------------------- claims ------------------------------- *)

Finished == pc = "done"

StatusesOf(name) == IF HasKey(history, name) THEN Get(history, name).statuses ELSE <<>>

Count(s, Test(_)) == Cardinality({i \in DOMAIN s : Test(s[i])})

Listed(name) == name \in Range(payload.flakyTests)

HasFailureEntry(name) == \E i \in DOMAIN payload.currentFailures :
    payload.currentFailures[i].test = name

\* the full names the reports of a run can mention
AllNames == {FullName(node) : node \in CaseNodes} \cup {<<"c", "zz">>}

\* C1: after process_builds, generate_payload lists a test in flakyTests
\* exactly when its history has at least two statuses, the last one is PASS
\* and one before the last is FAIL; it lists no test twice and none that has
\* no history.  [FAIL,PASS] is flaky; [FAIL,FAIL], [PASS], [PASS,FAIL] are not.
C1_FlakyIffHistory ==
    /\ Finished =>
         /\ \A name \in AllNames :
               Listed(name) <=>
                 LET h == StatusesOf(name)
                 IN /\ Len(h) >= 2
                    /\ h[Len(h)] = "PASS"
                    /\ \E i \in 1..(Len(h) - 1) : h[i] = "FAIL"
         /\ \A i, j \in DOMAIN payload.flakyTests :
               payload.flakyTests[i] = payload.flakyTests[j] => i = j
         /\ \A i \in DOMAIN payload.flakyTests : HasKey(history, payload.flakyTests[i])
    /\ FlakyTests(<<[name |-> "t", statuses |-> <<"FAIL", "PASS">>]>>) = <<"t">>
    /\ FlakyTests(<<[name |-> "t", statuses |-> <<"FAIL", "FAIL">>]>>) = <<>>
    /\ FlakyTests(<<[name |-> "t", statuses |-> <<"PASS">>]>>) = <<>>
    /\ FlakyTests(<<[name |-> "t", statuses |-> <<"PASS", "FAIL">>]>>) = <<>>

\* a finished run over two reports of one test each, in which a test failed
\* in the first and passed in the second, and is listed
C1_Witness ==
    /\ Finished
    /\ idx = 2
    /\ Len(results) = 1
    /\ \E name \in AllNames : StatusesOf(name) = <<"FAIL", "PASS">> /\ Listed(name)

Clamp(x, lower, upper) == IF x < lower THEN lower ELSE IF x > upper THEN upper ELSE x

FailingNow == {i \in DOMAIN latest_results : latest_results[i].status = "FAIL"}

FlakyNow ==
    {i \in DOMAIN history :
        LET h == history[i].statuses
        IN Len(h) >= 2 /\ h[Len(h)] = "PASS" /\ \E k \in 1..(Len(h) - 1) : h[k] = "FAIL"}

RawScore == 100 - 20 * Cardinality(FailingNow) - 10 * Cardinality(FlakyNow)

\* C2: the score of the payload is 100 - 20*f - 10*k clamped to 0..100, f the
\* number of tests whose latest status is FAIL and k the number of flaky
\* tests; so it always lies in 0..100.
C2_ScoreClamped ==
    Finished =>
        /\ payload.summary.score = Clamp(RawScore, 0, 100)
        /\ payload.summary.score \in 0..100

\* a finished run whose failures and flaky tests drive the raw formula below 0
C2_Witness ==
    /\ Finished
    /\ RawScore < 0
    /\ Cardinality(FailingNow) > 0
    /\ Cardinality(FlakyNow) > 0
    /\ payload.summary.score = 0

\* C3: currentFailures has exactly one entry for each test whose latest
\* status is FAIL, none for a test whose latest status is PASS or SKIP or
\* that is not in the latest snapshot, and as many entries as there are
\* such FAIL tests.
C3_CurrentFailuresExact ==
    Finished =>
        /\ Len(payload.currentFailures) = Cardinality(FailingNow)
        /\ \A name \in AllNames :
              Count(payload.currentFailures, LAMBDA e : e.test = name)
                = IF \E i \in FailingNow : latest_results[i].name = name THEN 1 ELSE 0

\* a finished run whose latest snapshot holds a failing test (listed) and a
\* skipped one (not listed)
C3_Witness ==
    /\ Finished
    /\ \E i, j \in DOMAIN latest_results :
          /\ latest_results[i].status = "FAIL"
          /\ HasFailureEntry(latest_results[i].name)
          /\ latest_results[j].status = "SKIP"
          /\ ~HasFailureEntry(latest_results[j].name)

Returned == pc \in {"upload", "done"}

\* C4 (as claimed): after process_builds over a non-empty list the latest
\* snapshot holds exactly the outcomes of the last processed report, and
\* total_duration is the sum of that report's durations.
C4_SnapshotIsLastBatch ==
    (Returned /\ expanded_files # <<>>) =>
        /\ Range(latest_results) = Range(results)
        /\ total_duration = Sum([i \in 1..Len(results) |-> results[i].duration])

\* C5 (as amended): no test is listed in flakyTests and has an entry in
\* currentFailures of the same payload.
C5_NeverFlakyAndFailing ==
    Finished => \A name \in AllNames : ~(Listed(name) /\ HasFailureEntry(name))

\* a finished run with a flaky test and a current failure (two tests)
C5_Witness ==
    /\ Finished
    /\ payload.flakyTests # <<>>
    /\ payload.currentFailures # <<>>

\* the reports a run within the bounds can read, one per expanded file
RECURSIVE RunsOf(_, _)
RunsOf(n, used) ==
    {<<>>} \cup
    (IF n = 0 THEN {}
     ELSE UNION {{<<r>> \o rest : rest \in RunsOf(n - 1, used + Len(Cases(r)))} :
                   r \in {c \in FileContents(used) : ~ParseRaises(c)}})

\* C5 (as claimed): from the start of the program some run ends with a
\* payload that lists one test in flakyTests and in currentFailures.
C5_SomeRunFlakyAndFailing ==
    pc = "start" => \E reports \in RunsOf(MaxFiles, 0) :
        LET p == GeneratePayload(RunBuilds(NewAgent, reports, 0))
        IN \E i \in DOMAIN p.flakyTests, j \in DOMAIN p.currentFailures :
              p.flakyTests[i] = p.currentFailures[j].test

\* C6: the status is Critical exactly when score < 50, Unstable exactly when
\* 50 <= score < 80 and Stable exactly when score >= 80, for the payload of
\* every run and for every score in 0..100.
C6_StatusPartition ==
    /\ Finished =>
         LET score == payload.summary.score
             status == payload.summary.status
         IN /\ status \in {"Critical", "Unstable", "Stable"}
            /\ status = "Critical" <=> score < 50
            /\ status = "Unstable" <=> (50 <= score /\ score < 80)
            /\ status = "Stable" <=> score >= 80
    /\ \A score \in 0..100 :
         /\ Status(score) \in {"Critical", "Unstable", "Stable"}
         /\ Status(score) = "Critical" <=> score < 50
         /\ Status(score) = "Unstable" <=> (50 <= score /\ score < 80)
         /\ Status(score) = "Stable" <=> score >= 80

\* a finished run whose score sits on the lower threshold
C6_Witness ==
    /\ Finished
    /\ payload.summary.score = 50
    /\ payload.summary.status = "Unstable"

Ended == pc \in {"done", "crashed"}

\* C8 (as claimed): every run that ends has attempted the publish exactly
\* once, and ends with a non-zero status exactly when that attempt failed.
C8_ExitTiedToPublish ==
    Ended =>
        /\ publish_attempts = 1
        /\ exit_code # 0 <=> ~IsSuccess(response)

\* strip() and replace("\n", " ") stated on positions: c is the part of m
\* from its first to its last non-whitespace character, newlines as spaces
IsCleaned(m, c) ==
    LET solid == {i \in DOMAIN m : m[i] \notin Whitespace}
    IN IF solid = {} THEN c = <<>>
       ELSE LET first == CHOOSE i \in solid : \A j \in solid : i <= j
                last == CHOOSE i \in solid : \A j \in solid : i >= j
            IN /\ Len(c) = last - first + 1
               /\ \A k \in 1..Len(c) :
                     c[k] = IF m[first + k - 1] = "\n" THEN " " ELSE m[first + k - 1]

\* C9: the published error of a current failure is its cleaned message c
\* (stripped, newlines as spaces) when c has at most 100 characters, and
\* otherwise the first 97 characters of c followed by "..." (100 characters);
\* it is never longer than 100 characters.
C9_Truncation ==
    Finished =>
        \A i \in DOMAIN payload.currentFailures :
            LET m == CurrentFailures(latest_results)[i].message
                c == CleanMsg(m)
                e == payload.currentFailures[i].error
            IN /\ IsCleaned(m, c)
               /\ Len(e) <= 100
               /\ Len(c) <= 100 => e = c
               /\ Len(c) > 100 =>
                     /\ Len(e) = 100
                     /\ SubSeq(e, 1, 97) = SubSeq(c, 1, 97)
                     /\ SubSeq(e, 98, 100) = <<".", ".", ".">>

\* a finished run that published a truncated message which had padding
\* and an embedded newline
C9_Witness ==
    /\ Finished
    /\ \E i \in DOMAIN payload.currentFailures :
          LET m == CurrentFailures(latest_results)[i].message
          IN /\ Len(m) > Len(CleanMsg(m))
             /\ Len(CleanMsg(m)) = 150
             /\ "\n" \in Range(Strip(m))
             /\ Len(payload.currentFailures[i].error) = 100

\* C10 (as claimed): every processed report appends exactly one status to
\* the history of each test it mentions and nothing to the others, and
\* leaves the statuses already recorded as they are.
C10_OneStatusPerBatch ==
    [][idx' = idx + 1 =>
        \A name \in AllNames :
            LET old == StatusesOf(name)
                new == IF HasKey(history', name) THEN Get(history', name).statuses
                                                 ELSE <<>>
                mentioned == \E i \in DOMAIN results' : results'[i].name = name
            IN /\ Len(new) = Len(old) + (IF mentioned THEN 1 ELSE 0)
               /\ SubSeq(new, 1, Len(old)) = old]_vars

====
